---- MODULE Spec2Model ----
(***************************************************************************)
(* grahh-db: an embedded graph-shaped key/value store (src/src/lib.rs).    *)
(* The node table is a HashMap<Key, Node>; a Node owns a Value and a       *)
(* HashMap<String, HashSet<Key>> of labelled neighbour sets.  A Database   *)
(* owns the table and a Storage backend (Memory, or File(path)).           *)
(*                                                                         *)
(* A panic (unwrap / assert! / duplicate keys in get_disjoint_mut) ends    *)
(* the process: status becomes "panicked" and the Database takes no more   *)
(* calls.  The file at the path outlives the process.                      *)
(***************************************************************************)
EXTENDS Integers, Sequences, FiniteSets, TLC

VARIABLES
    inner,      \* Database.inner : Key -> Node, a function on the keys present
    storage,    \* Database.storage : "Memory" or "File"; "None" before construction
    file,       \* the file at the path: [exists, bytes]
    status,     \* "running", or "panicked" once a call has failed fatally
    last,       \* history: the last call, its arguments and what it returned
    old_inner,  \* history: the table when the last call started
    old_file,   \* history: the file when the last call started
    issued,     \* history: every Key a create has returned so far
    saved,      \* history: the table of the last save, while the file still holds it
    calls       \* the number of calls made so far (bounded by MaxCalls)

vars == <<inner, storage, file, status, last, old_inner, old_file, issued, saved, calls>>

----------------------------------------------------------------------------
(* Bounds and input sets *)

\* Utc::now() readings are drawn from 0 .. MaxClock-1 (and one pre-epoch reading)
MaxClock == 3
\* the same, for the file-backed specification
MaxFileClock == 2
\* the length of the call sequences explored
MaxCalls == 5
\* the same, for the file-backed specification
MaxFileCalls == 6

\* readings of the wall clock in nanoseconds; -1 stands for a pre-1970 reading.
\* The wall clock is not monotonic: any reading may follow any other.
ClockReadings(n) == -1 .. (n - 1)
\* keys a caller can pass (Key is Copy, survives remove, and Key::parse makes any)
KeyInputs(n) == 0 .. (n - 1)
\* labels and payloads of the repository's own scenario (main)
Labels == {"_", "!"}
Payloads == {"Hello", "World"}

----------------------------------------------------------------------------
(* Option<T> *)
None == [some |-> FALSE]
\* `saved` once a failed save has left the file torn (emptied or partly written)
Torn == [some |-> FALSE, torn |-> TRUE]
Some(x) == [some |-> TRUE, value |-> x]

----------------------------------------------------------------------------
(* Key, Value, Node *)

\* Key::generate: the i64 nanosecond timestamp converted to u64; the conversion
\* (try_from(..).unwrap()) fails for a negative reading
Key_generate(now) == IF now >= 0 THEN Some(now) ELSE None

\* Value::serialize: the payload's bytes (one opaque block per payload)
Value_serialize(value) == <<value>>

EMPTY_HASHSET == {}

\* HashMap::new()
EmptyMap == [l \in {} |-> {}]

\* Node::new
Node_new(value) == [value |-> Value_serialize(value), connections |-> EmptyMap]

\* Node::connect with the lookup of the label forgotten: the label's set is
\* always replaced by a fresh one
Node_connect_overwrite(node, kind, key) ==
    [node EXCEPT !.connections =
        [l \in DOMAIN node.connections \cup {kind} |->
            IF l = kind THEN {key} ELSE node.connections[l]]]

\* Node::connect: insert into the label's set, creating the set if absent
Node_connect(node, kind, key) ==
    LET c == node.connections IN
    IF kind \in DOMAIN c
    THEN [node EXCEPT !.connections = [c EXCEPT ![kind] = c[kind] \cup {key}]]
    ELSE [node EXCEPT !.connections =
             [l \in DOMAIN c \cup {kind} |-> IF l = kind THEN {key} ELSE c[l]]]

\* Node::remove_connection that stops after the first label holding the key
Node_remove_connection_first(node, key) ==
    LET c == node.connections
        holding == {l \in DOMAIN c : key \in c[l]}
    IN IF holding = {} THEN node
       ELSE LET first == CHOOSE l \in holding : TRUE
            IN [node EXCEPT !.connections = [c EXCEPT ![first] = c[first] \ {key}]]

\* Node::remove_connection: remove key from every label's set (sets stay, even empty)
Node_remove_connection(node, key) ==
    [node EXCEPT !.connections =
        [l \in DOMAIN node.connections |-> node.connections[l] \ {key}]]

\* Node::connections without the filter: every label is listed, emptied or not
Node_connections_unfiltered(node) ==
    {<<l, Cardinality(node.connections[l])>> : l \in DOMAIN node.connections}

\* Node::connections: the (label, neighbour count) pairs of the non-empty labels
Node_connections(node) ==
    {<<l, Cardinality(node.connections[l])>> :
        l \in {k \in DOMAIN node.connections : node.connections[k] # {}}}

\* Node::get_connections
Node_get_connections(node, kind) ==
    IF kind \in DOMAIN node.connections THEN node.connections[kind] ELSE EMPTY_HASHSET

\* a set of keys as a sequence (one iteration order of a HashSet)
RECURSIVE SetToSeq(_)
SetToSeq(S) ==
    IF S = {} THEN <<>>
    ELSE LET x == CHOOSE y \in S : \A z \in S : y <= z
         IN <<x>> \o SetToSeq(S \ {x})

\* the labels of a map as a sequence (one iteration order of a HashMap)
RECURSIVE LabelsToSeq(_)
LabelsToSeq(S) ==
    IF S = {} THEN <<>>
    ELSE LET x == CHOOSE y \in S : TRUE
         IN <<x>> \o LabelsToSeq(S \ {x})

RECURSIVE FlatMap(_, _)
FlatMap(c, ls) ==
    IF ls = <<>> THEN <<>>
    ELSE SetToSeq(c[Head(ls)]) \o FlatMap(c, Tail(ls))

\* Node::destruct: every neighbour key of every label, label after label (a key
\* linked under two labels is yielded twice), and the value
Node_destruct(node) ==
    [connections |-> FlatMap(node.connections, LabelsToSeq(DOMAIN node.connections)),
     value |-> node.value]

----------------------------------------------------------------------------
(* Table helpers *)

\* an empty HashMap<Key, Node>
EmptyTable == [k \in {} |-> 0]

\* HashMap::insert
MapInsert(m, key, node) ==
    [k \in DOMAIN m \cup {key} |-> IF k = key THEN node ELSE m[k]]

\* HashMap::remove
MapRemove(m, key) == [k \in DOMAIN m \ {key} |-> m[k]]

\* Database::select as a function of the table
select(m, key, kind) ==
    IF key \notin DOMAIN m THEN EMPTY_HASHSET
    ELSE Node_get_connections(m[key], kind)

\* Database::get as a function of the table
get(m, key) == IF key \in DOMAIN m THEN Some(m[key]) ELSE None

\* the cascade loop of Database::remove over the keys destruct yields:
\* get_mut(connected).unwrap().remove_connection(&key); a missing neighbour
\* panics with the neighbours visited so far already cleaned
RECURSIVE remove_loop(_, _, _)
remove_loop(m, connections, key) ==
    IF connections = <<>> THEN [inner |-> m, panicked |-> FALSE]
    ELSE LET connected == Head(connections) IN
         IF connected \notin DOMAIN m
         THEN [inner |-> m, panicked |-> TRUE]
         ELSE remove_loop([m EXCEPT ![connected] = Node_remove_connection(m[connected], key)],
                          Tail(connections), key)

\* HashMap::get_disjoint_mut([a, b]): panics when both keys find the same entry
Overlapping(m, a, b) == a = b /\ a \in DOMAIN m

----------------------------------------------------------------------------
(* Persistence: the snapshot encoding *)

AbsentFile == [exists |-> FALSE, bytes |-> <<>>]
EmptyFile == [exists |-> TRUE, bytes |-> <<>>]

\* one label's set as an archived entry
RECURSIVE EncodeConnections(_, _)
EncodeConnections(c, ls) ==
    IF ls = <<>> THEN <<>>
    ELSE <<[kind |-> Head(ls), nodes |-> SetToSeq(c[Head(ls)])]>>
         \o EncodeConnections(c, Tail(ls))

RECURSIVE EncodeEntries(_, _)
EncodeEntries(m, ks) ==
    IF ks = <<>> THEN <<>>
    ELSE <<[key |-> Head(ks),
            value |-> m[Head(ks)].value,
            connections |-> EncodeConnections(m[Head(ks)].connections,
                               LabelsToSeq(DOMAIN m[Head(ks)].connections))]>>
         \o EncodeEntries(m, Tail(ks))

\* rkyv::to_bytes of the table: the entries, then the root object (rkyv writes
\* the root last), which records the number of entries
Encode(m) ==
    EncodeEntries(m, SetToSeq(DOMAIN m)) \o <<[root |-> Cardinality(DOMAIN m)]>>

\* rkyv::access: the validation of the bytes as an archived table
Valid(bytes) ==
    /\ Len(bytes) >= 1
    /\ "root" \in DOMAIN bytes[Len(bytes)]
    /\ bytes[Len(bytes)].root = Len(bytes) - 1

RECURSIVE DecodeConnections(_)
DecodeConnections(cs) ==
    IF cs = <<>> THEN EmptyMap
    ELSE LET rest == DecodeConnections(Tail(cs))
             e == Head(cs)
         IN [l \in DOMAIN rest \cup {e.kind} |->
                IF l = e.kind THEN {e.nodes[i] : i \in 1 .. Len(e.nodes)} ELSE rest[l]]

RECURSIVE DecodeEntries(_)
DecodeEntries(es) ==
    IF es = <<>> THEN EmptyTable
    ELSE LET e == Head(es) IN
         MapInsert(DecodeEntries(Tail(es)), e.key,
                   [value |-> e.value, connections |-> DecodeConnections(e.connections)])

\* deserialize that rebuilds the nodes without their label sets
Decode_values_only(bytes) ==
    LET m == DecodeEntries(SubSeq(bytes, 1, Len(bytes) - 1))
    IN [k \in DOMAIN m |-> [m[k] EXCEPT !.connections = EmptyMap]]

\* rkyv::deserialize of a validated archive
Decode(bytes) == DecodeEntries(SubSeq(bytes, 1, Len(bytes) - 1))

----------------------------------------------------------------------------
(* Database operations as functions of the table.  Each yields the table   *)
(* the call leaves, whether the call panicked, and what it returned.       *)

\* Database::create as the earlier Database::insert did it: no assert, the
\* node under a colliding key is replaced and the key returned
create_replace(m, now, value) ==
    LET key == Key_generate(now) IN
    IF ~key.some
    THEN [inner |-> m, panicked |-> TRUE, ret |-> None]
    ELSE [inner |-> MapInsert(m, key.value, Node_new(value)),
          panicked |-> FALSE, ret |-> Some(key.value)]

\* Database::create with the clock reading `now`: the insert happens before
\* the assert!, so a collision has already replaced the node when it panics
create(m, now, value) ==
    LET key == Key_generate(now) IN
    IF ~key.some
    THEN [inner |-> m, panicked |-> TRUE, ret |-> None]
    ELSE LET previous == get(m, key.value)
             after == MapInsert(m, key.value, Node_new(value))
         IN IF previous.some
            THEN [inner |-> after, panicked |-> TRUE, ret |-> None]
            ELSE [inner |-> after, panicked |-> FALSE, ret |-> Some(key.value)]

\* Database::remove without the cascade: the node is taken out and its
\* neighbours are left as they are
remove_no_cascade(m, key) ==
    IF key \notin DOMAIN m
    THEN [inner |-> m, panicked |-> FALSE, ret |-> None]
    ELSE [inner |-> MapRemove(m, key), panicked |-> FALSE, ret |-> Some(m[key].value)]

\* Database::remove with `?` replaced by unwrap(): an unknown key panics
remove_unwrap(m, key) ==
    IF key \notin DOMAIN m
    THEN [inner |-> m, panicked |-> TRUE, ret |-> None]
    ELSE LET d == Node_destruct(m[key])
             r == remove_loop(MapRemove(m, key), d.connections, key)
         IN [inner |-> r.inner, panicked |-> r.panicked,
             ret |-> IF r.panicked THEN None ELSE Some(d.value)]

\* Database::remove
remove(m, key) ==
    IF key \notin DOMAIN m
    THEN [inner |-> m, panicked |-> FALSE, ret |-> None]
    ELSE LET d == Node_destruct(m[key])
             r == remove_loop(MapRemove(m, key), d.connections, key)
         IN [inner |-> r.inner, panicked |-> r.panicked,
             ret |-> IF r.panicked THEN None ELSE Some(d.value)]

\* Database::connect with the two labels exchanged between the sides
connect_swapped(m, first_key, first_kind, second_key, second_kind) ==
    IF Overlapping(m, first_key, second_key)
    THEN [inner |-> m, panicked |-> TRUE, ret |-> FALSE]
    ELSE IF first_key \in DOMAIN m /\ second_key \in DOMAIN m
    THEN [inner |-> [m EXCEPT ![first_key] = Node_connect(@, second_kind, second_key),
                              ![second_key] = Node_connect(@, first_kind, first_key)],
          panicked |-> FALSE, ret |-> TRUE]
    ELSE [inner |-> m, panicked |-> FALSE, ret |-> FALSE]

\* Database::connect returning what the two HashSet::insert calls return:
\* false when an edge was already there
connect_reports_insert(m, first_key, first_kind, second_key, second_kind) ==
    IF Overlapping(m, first_key, second_key)
    THEN [inner |-> m, panicked |-> TRUE, ret |-> FALSE]
    ELSE IF first_key \in DOMAIN m /\ second_key \in DOMAIN m
    THEN [inner |-> [m EXCEPT ![first_key] = Node_connect(@, first_kind, second_key),
                              ![second_key] = Node_connect(@, second_kind, first_key)],
          panicked |-> FALSE,
          ret |-> /\ second_key \notin Node_get_connections(m[first_key], first_kind)
                  /\ first_key \notin Node_get_connections(m[second_key], second_kind)]
    ELSE [inner |-> m, panicked |-> FALSE, ret |-> FALSE]

\* Database::connect looking the two keys up one after the other: the first
\* node is connected before the second is found missing
connect_half(m, first_key, first_kind, second_key, second_kind) ==
    IF Overlapping(m, first_key, second_key)
    THEN [inner |-> m, panicked |-> TRUE, ret |-> FALSE]
    ELSE IF first_key \notin DOMAIN m
    THEN [inner |-> m, panicked |-> FALSE, ret |-> FALSE]
    ELSE LET half == [m EXCEPT ![first_key] = Node_connect(@, first_kind, second_key)] IN
         IF second_key \notin DOMAIN m
         THEN [inner |-> half, panicked |-> FALSE, ret |-> FALSE]
         ELSE [inner |-> [half EXCEPT ![second_key] = Node_connect(@, second_kind, first_key)],
               panicked |-> FALSE, ret |-> TRUE]

\* Database::connect
connect(m, first_key, first_kind, second_key, second_kind) ==
    IF Overlapping(m, first_key, second_key)
    THEN [inner |-> m, panicked |-> TRUE, ret |-> FALSE]
    ELSE IF first_key \in DOMAIN m /\ second_key \in DOMAIN m
    THEN [inner |-> [m EXCEPT ![first_key] = Node_connect(@, first_kind, second_key),
                              ![second_key] = Node_connect(@, second_kind, first_key)],
          panicked |-> FALSE, ret |-> TRUE]
    ELSE [inner |-> m, panicked |-> FALSE, ret |-> FALSE]

\* Database::disconnect dropping the edge on the first node only: the second
\* node keeps its entry for the first
disconnect_one_side(m, first_key, second_key) ==
    IF Overlapping(m, first_key, second_key)
    THEN [inner |-> m, panicked |-> TRUE, ret |-> FALSE]
    ELSE IF first_key \in DOMAIN m /\ second_key \in DOMAIN m
    THEN [inner |-> [m EXCEPT ![first_key] = Node_remove_connection(@, second_key)],
          panicked |-> FALSE, ret |-> TRUE]
    ELSE [inner |-> m, panicked |-> FALSE, ret |-> FALSE]

\* Database::disconnect
disconnect(m, first_key, second_key) ==
    IF Overlapping(m, first_key, second_key)
    THEN [inner |-> m, panicked |-> TRUE, ret |-> FALSE]
    ELSE IF first_key \in DOMAIN m /\ second_key \in DOMAIN m
    THEN [inner |-> [m EXCEPT ![first_key] = Node_remove_connection(@, second_key),
                              ![second_key] = Node_remove_connection(@, first_key)],
          panicked |-> FALSE, ret |-> TRUE]
    ELSE [inner |-> m, panicked |-> FALSE, ret |-> FALSE]

\* Storage::save opening the path without truncate(true): what the new
\* snapshot does not overwrite of a longer old one stays in the file
Storage_save_no_truncate(f, m, outcome, written) ==
    CASE outcome = "open_failed"   -> [file |-> f, panicked |-> TRUE]
      [] outcome = "encode_failed" -> [file |-> [exists |-> TRUE, bytes |-> f.bytes],
                                       panicked |-> TRUE]
      [] outcome = "write_failed"  ->
             [file |-> [exists |-> TRUE,
                        bytes |-> SubSeq(Encode(m), 1, written)
                                  \o SubSeq(f.bytes, written + 1, Len(f.bytes))],
              panicked |-> TRUE]
      [] OTHER -> [file |-> [exists |-> TRUE,
                             bytes |-> Encode(m)
                                       \o SubSeq(f.bytes, Len(Encode(m)) + 1, Len(f.bytes))],
                   panicked |-> FALSE]

\* Storage::save on File(path): open with create+truncate, encode, write_all;
\* each step is unwrapped.  `outcome` is what the file system and the encoder
\* do: "ok", or the step that fails; `written` is how much of the snapshot a
\* failing write_all got out.  The file is truncated as soon as it is opened.
Storage_save(f, m, outcome, written) ==
    CASE outcome = "open_failed"   -> [file |-> f, panicked |-> TRUE]
      [] outcome = "encode_failed" -> [file |-> EmptyFile, panicked |-> TRUE]
      [] outcome = "write_failed"  ->
             [file |-> [exists |-> TRUE, bytes |-> SubSeq(Encode(m), 1, written)],
              panicked |-> TRUE]
      [] OTHER -> [file |-> [exists |-> TRUE, bytes |-> Encode(m)], panicked |-> FALSE]

SaveOutcomes == {"ok", "open_failed", "encode_failed", "write_failed"}

\* Database::load that does not create the missing file
load_no_create(f) ==
    IF ~f.exists
    THEN [inner |-> EmptyTable, file |-> f, panicked |-> FALSE]
    ELSE IF ~Valid(f.bytes)
    THEN [inner |-> EmptyTable, file |-> f, panicked |-> TRUE]
    ELSE [inner |-> Decode(f.bytes), file |-> f, panicked |-> FALSE]

\* Database::load: a missing file is created empty and the table starts empty;
\* an existing file is read whole, validated and deserialized, each unwrapped
load(f) ==
    IF ~f.exists
    THEN [inner |-> EmptyTable, file |-> EmptyFile, panicked |-> FALSE]
    ELSE IF ~Valid(f.bytes)
    THEN [inner |-> EmptyTable, file |-> f, panicked |-> TRUE]
    ELSE [inner |-> Decode(f.bytes), file |-> f, panicked |-> FALSE]

----------------------------------------------------------------------------
(* Initial states *)

\* Database::in_memory()
Init ==
    /\ inner = EmptyTable
    /\ storage = "Memory"
    /\ file = AbsentFile
    /\ status = "running"
    /\ last = [op |-> "in_memory"]
    /\ old_inner = EmptyTable
    /\ old_file = AbsentFile
    /\ issued = {}
    /\ saved = None
    /\ calls = 0

\* the process has not constructed a Database yet; no file at the path
InitFile ==
    /\ inner = EmptyTable
    /\ storage = "None"
    /\ file = AbsentFile
    /\ status = "running"
    /\ last = [op |-> "start"]
    /\ old_inner = EmptyTable
    /\ old_file = AbsentFile
    /\ issued = {}
    /\ saved = None
    /\ calls = 0

\* a Database exists and its process is alive
Live == status = "running" /\ storage # "None"

\* the call sequences explored are bounded: MaxCalls calls on an in-memory
\* Database, MaxFileCalls over the runs of a file-backed one
CallBudget == IF storage = "Memory" THEN MaxCalls ELSE MaxFileCalls

History ==
    /\ calls < CallBudget
    /\ calls' = calls + 1
    /\ old_inner' = inner
    /\ old_file' = file

Outcome(r) ==
    /\ inner' = r.inner
    /\ status' = IF r.panicked THEN "panicked" ELSE "running"

----------------------------------------------------------------------------
(* Calls *)

Create(now, value) ==
    /\ Live
    /\ History
    /\ LET r == create(inner, now, value) IN
       /\ Outcome(r)
       /\ last' = [op |-> "create", now |-> now, value |-> value, ret |-> r.ret]
       /\ issued' = IF r.ret.some THEN issued \cup {r.ret.value} ELSE issued
    /\ UNCHANGED <<storage, file, saved>>

Remove(key) ==
    /\ Live
    /\ History
    /\ LET r == remove(inner, key) IN
       /\ Outcome(r)
       /\ last' = [op |-> "remove", key |-> key, ret |-> r.ret]
    /\ UNCHANGED <<storage, file, issued, saved>>

Connect(first_key, first_kind, second_key, second_kind) ==
    /\ Live
    /\ History
    /\ LET r == connect(inner, first_key, first_kind, second_key, second_kind) IN
       /\ Outcome(r)
       /\ last' = [op |-> "connect", first_key |-> first_key, first_kind |-> first_kind,
                   second_key |-> second_key, second_kind |-> second_kind, ret |-> r.ret]
    /\ UNCHANGED <<storage, file, issued, saved>>

Disconnect(first_key, second_key) ==
    /\ Live
    /\ History
    /\ LET r == disconnect(inner, first_key, second_key) IN
       /\ Outcome(r)
       /\ last' = [op |-> "disconnect", first_key |-> first_key,
                   second_key |-> second_key, ret |-> r.ret]
    /\ UNCHANGED <<storage, file, issued, saved>>

Select(key, kind) ==
    /\ Live
    /\ History
    /\ last' = [op |-> "select", key |-> key, kind |-> kind, ret |-> select(inner, key, kind)]
    /\ UNCHANGED <<inner, storage, file, status, issued, saved>>

Get(key) ==
    /\ Live
    /\ History
    /\ last' = [op |-> "get", key |-> key, ret |-> get(inner, key)]
    /\ UNCHANGED <<inner, storage, file, status, issued, saved>>

\* Database::iter: every (key, node) entry of the table
Iter ==
    /\ Live
    /\ History
    /\ last' = [op |-> "iter", ret |-> {<<k, inner[k]>> : k \in DOMAIN inner}]
    /\ UNCHANGED <<inner, storage, file, status, issued, saved>>

\* Database::save: Storage::save does nothing on Memory
Save(outcome, written) ==
    /\ Live
    /\ History
    /\ IF storage = "File"
       THEN LET r == Storage_save(file, inner, outcome, written) IN
            /\ file' = r.file
            /\ status' = IF r.panicked THEN "panicked" ELSE "running"
            /\ saved' = IF r.panicked
                        THEN (IF r.file = file THEN saved ELSE Torn)
                        ELSE Some(inner)
            /\ last' = [op |-> "save", outcome |-> outcome]
       ELSE /\ outcome = "ok"
            /\ last' = [op |-> "save", outcome |-> outcome]
            /\ UNCHANGED <<file, status, saved>>
    /\ UNCHANGED <<inner, storage, issued>>

\* Database::in_memory(), by a process that starts
InMemory ==
    /\ History
    /\ inner' = EmptyTable
    /\ storage' = "Memory"
    /\ status' = "running"
    /\ last' = [op |-> "in_memory"]
    /\ issued' = {}
    /\ UNCHANGED <<file, saved>>

\* Database::load(path), by a process that starts (the one before it, if any,
\* has ended or is dropped); the keys issued are counted per Database
Load ==
    /\ History
    /\ LET r == load(file) IN
       /\ inner' = r.inner
       /\ file' = r.file
       /\ status' = IF r.panicked THEN "panicked" ELSE "running"
       /\ storage' = IF r.panicked THEN "None" ELSE "File"
    /\ last' = [op |-> "load"]
    /\ issued' = {}
    /\ UNCHANGED saved

----------------------------------------------------------------------------
(* Specifications *)

\* an in-memory Database and its callers
Next ==
    \/ \E now \in ClockReadings(MaxClock), value \in Payloads : Create(now, value)
    \/ \E key \in KeyInputs(MaxClock) : Remove(key)
    \/ \E k1, k2 \in KeyInputs(MaxClock), l1, l2 \in Labels : Connect(k1, l1, k2, l2)
    \/ \E k1, k2 \in KeyInputs(MaxClock) : Disconnect(k1, k2)
    \/ \E key \in KeyInputs(MaxClock), kind \in Labels : Select(key, kind)
    \/ \E key \in KeyInputs(MaxClock) : Get(key)
    \/ Iter
    \/ Save("ok", 0)

Spec == Init /\ [][Next]_vars

\* several runs of a process that constructs its Database by load or by
\* in_memory, over one path
NextFile ==
    \/ Load
    \/ InMemory
    \/ \E now \in ClockReadings(MaxFileClock), value \in Payloads : Create(now, value)
    \/ \E key \in KeyInputs(MaxFileClock) : Remove(key)
    \/ \E k1, k2 \in KeyInputs(MaxFileClock), l1, l2 \in Labels : Connect(k1, l1, k2, l2)
    \/ \E k1, k2 \in KeyInputs(MaxFileClock) : Disconnect(k1, k2)
    \/ \E outcome \in SaveOutcomes :
          \E written \in 0 .. (IF outcome = "write_failed" THEN Len(Encode(inner)) - 1 ELSE 0) :
             Save(outcome, written)

SpecFile == InitFile /\ [][NextFile]_vars

----------------------------------------------------------------------------
(* Properties *)

\* every key some label set of node n holds
Neighbours(m, n) == UNION {m[n].connections[l] : l \in DOMAIN m[n].connections}

Returned(op) == last.op = op /\ status = "running"

\* C1: referential integrity. After every call, every Key in any label set of
\* any node of the table is a key of the table.
C1_ReferentialIntegrity ==
    \A n \in DOMAIN inner : Neighbours(inner, n) \subseteq DOMAIN inner

\* C1 witness: a remove has just taken a node that another node pointed at
C1_Witness ==
    /\ Returned("remove")
    /\ last.key \in DOMAIN old_inner
    /\ \E n \in DOMAIN inner : last.key \in Neighbours(old_inner, n)

\* C2: cascade correctness. After remove(K) returns for a K that was in the
\* table, K is not in the table, K is in no label set of a remaining node, and
\* select(K, L) is empty for every label L.
C2_CascadeCorrect ==
    (Returned("remove") /\ last.key \in DOMAIN old_inner) =>
        /\ last.key \notin DOMAIN inner
        /\ \A n \in DOMAIN inner : last.key \notin Neighbours(inner, n)
        /\ \A n \in KeyInputs(MaxClock), l \in Labels : last.key \notin select(inner, n, l)
        /\ \A l \in Labels : select(inner, last.key, l) = {}

\* C2 witness: the removed node was held by a remaining node under both labels
C2_Witness ==
    /\ Returned("remove")
    /\ last.key \in DOMAIN old_inner
    /\ \E n \in DOMAIN inner :
          \A l \in Labels : last.key \in select(old_inner, n, l)

\* C3 as stated: after connect(A, l1, B, l2) succeeds, select(A, l2) contains B
\* and select(B, l1) contains A.
C3_SymmetryAsStated ==
    (Returned("connect") /\ last.ret) =>
        /\ last.second_key \in select(inner, last.first_key, last.second_kind)
        /\ last.first_key \in select(inner, last.second_key, last.first_kind)

\* C3 amended: after connect(A, l1, B, l2) succeeds, select(A, l1) contains B
\* and select(B, l2) contains A (each side's edge is under its own label).
C3_Symmetry ==
    (Returned("connect") /\ last.ret) =>
        /\ last.second_key \in select(inner, last.first_key, last.first_kind)
        /\ last.first_key \in select(inner, last.second_key, last.second_kind)

\* C3 witness: a connect with two different labels has succeeded
C3_Witness ==
    /\ Returned("connect")
    /\ last.ret
    /\ last.first_kind # last.second_kind

\* C4: connect records two directed entries, each under its own side's label:
\* first's first_label set gains second_key, second's second_label set gains
\* first_key, and no other label set of either node gains a member.
C4_ConnectTwoEntries ==
    (Returned("connect") /\ last.ret) =>
        /\ select(inner, last.first_key, last.first_kind)
              = select(old_inner, last.first_key, last.first_kind) \cup {last.second_key}
        /\ select(inner, last.second_key, last.second_kind)
              = select(old_inner, last.second_key, last.second_kind) \cup {last.first_key}
        /\ \A l \in Labels \ {last.first_kind} :
              select(inner, last.first_key, l) \subseteq select(old_inner, last.first_key, l)
        /\ \A l \in Labels \ {last.second_kind} :
              select(inner, last.second_key, l) \subseteq select(old_inner, last.second_key, l)
        /\ DOMAIN inner[last.first_key].connections \subseteq Labels
        /\ DOMAIN inner[last.second_key].connections \subseteq Labels

\* C4 witness: a connect has succeeded on a node that already had a neighbour
\* under the same label
C4_Witness ==
    /\ Returned("connect")
    /\ last.ret
    /\ select(old_inner, last.first_key, last.first_kind) \ {last.second_key} # {}

\* C5: no Key returned by create is returned again by a later create on the
\* same Database, also after its node has been removed.
C5_KeysNeverReused ==
    [][(last'.op = "create" /\ calls' # calls /\ last'.ret.some)
          => last'.ret.value \notin issued]_vars

\* C6: save followed by load from the same path yields the saved table: the
\* same keys, the same value for every key, the same members in every label set.
C6_RoundTrip ==
    (last.op = "load" /\ saved.some) =>
        /\ status = "running"
        /\ DOMAIN inner = DOMAIN saved.value
        /\ \A k \in DOMAIN inner :
              /\ inner[k].value = saved.value[k].value
              /\ \A l \in Labels : select(inner, k, l) = select(saved.value, k, l)
        /\ inner = saved.value

\* C6 witness: a load has read back a snapshot of two nodes with different
\* values and an edge between them
C6_Witness ==
    /\ last.op = "load"
    /\ saved.some
    /\ \E a, b \in DOMAIN inner :
          /\ inner[a].value # inner[b].value
          /\ b \in Neighbours(inner, a)

\* C7: if a save on a File backend fails at any step, the file at the path still
\* holds the complete snapshot it held before the call.
C7_FailedSaveKeepsFile ==
    (last.op = "save" /\ status = "panicked" /\ Valid(old_file.bytes)) => file = old_file

\* C8: for a key that is not in the table, remove returns absence, select the
\* empty set and get absence; none of them fails fatally and the table is
\* unchanged.
C8_UnknownKey ==
    (last.op \in {"remove", "select", "get"} /\ last.key \notin DOMAIN old_inner) =>
        /\ status = "running"
        /\ inner = old_inner
        /\ last.op = "remove" => last.ret = None
        /\ last.op = "select" => last.ret = {}
        /\ last.op = "get" => last.ret = None

\* C8 witness: a remove of an unknown key on a table that holds an edge
C8_Witness ==
    /\ last.op = "remove"
    /\ last.key \notin DOMAIN old_inner
    /\ \E n \in DOMAIN inner : Neighbours(inner, n) # {}

\* C9: if first_key or second_key is not in the table, connect returns false
\* and changes nothing.
C9_LenientConnect ==
    (last.op = "connect"
       /\ (last.first_key \notin DOMAIN old_inner \/ last.second_key \notin DOMAIN old_inner)) =>
        /\ status = "running"
        /\ last.ret = FALSE
        /\ inner = old_inner

\* C9 witness: a connect where the first node exists and the second does not
C9_Witness ==
    /\ last.op = "connect"
    /\ last.first_key \in DOMAIN old_inner
    /\ last.second_key \notin DOMAIN old_inner

\* C10: for any keys A and B both in the table, disconnect(A, B) returns true,
\* afterwards neither is in a label set of the other, and their edges to any
\* third node are unchanged; if A or B is not in the table it returns false and
\* the table is unchanged.
C10_Disconnect ==
    last.op = "disconnect" =>
        LET A == last.first_key
            B == last.second_key
        IN IF A \in DOMAIN old_inner /\ B \in DOMAIN old_inner
           THEN /\ status = "running"
                /\ last.ret = TRUE
                /\ DOMAIN inner = DOMAIN old_inner
                /\ B \notin Neighbours(inner, A)
                /\ A \notin Neighbours(inner, B)
                /\ \A l \in Labels :
                      /\ select(inner, A, l) \ {B} = select(old_inner, A, l) \ {B}
                      /\ select(inner, B, l) \ {A} = select(old_inner, B, l) \ {A}
           ELSE /\ status = "running"
                /\ last.ret = FALSE
                /\ inner = old_inner

\* C11: empty-label equivalence. For a node N, a label whose set was emptied and
\* a label never used on N are alike: select(N, L) is empty for both and
\* Node::connections() lists neither; it lists exactly the labels with at least
\* one neighbour, each with its neighbour count.
C11_EmptyLabelEquivalence ==
    status = "running" =>
        \A n \in DOMAIN inner :
            /\ \A l \in Labels :
                  (l \notin DOMAIN inner[n].connections \/ inner[n].connections[l] = {}) =>
                      /\ select(inner, n, l) = {}
                      /\ \A p \in Node_connections(inner[n]) : p[1] # l
            /\ \A l \in Labels :
                  select(inner, n, l) # {} =>
                      <<l, Cardinality(select(inner, n, l))>> \in Node_connections(inner[n])
            /\ \A p \in Node_connections(inner[n]) :
                  p[2] >= 1 /\ p[2] = Cardinality(select(inner, n, p[1]))

\* C11 witness: a node has one label emptied by a disconnect or a cascade,
\* and another label it never used
C11_Witness ==
    /\ status = "running"
    /\ last.op \in {"disconnect", "remove"}
    /\ \E n \in DOMAIN inner :
          /\ \E l \in DOMAIN inner[n].connections : inner[n].connections[l] = {}
          /\ \E l \in Labels : l \notin DOMAIN inner[n].connections

\* C12: self-loops are permitted. For a key A in the table, connect(A, l1, A, l2)
\* returns true and afterwards A is in select(A, l1) and in select(A, l2).
C12_SelfLoop ==
    (last.op = "connect" /\ last.first_key = last.second_key
       /\ last.first_key \in DOMAIN old_inner) =>
        /\ status = "running"
        /\ last.ret = TRUE
        /\ last.first_key \in select(inner, last.first_key, last.first_kind)
        /\ last.first_key \in select(inner, last.first_key, last.second_kind)

\* C13: create never replaces an existing node. If the generated Key is already
\* a key of the table, create ends in a fatal error and returns no Key;
\* otherwise it returns a Key that was not in the table, the table gains exactly
\* that node, with its value and no label sets, and every other node is
\* unchanged.
C13_CreateNeverReplaces ==
    (last.op = "create" /\ Key_generate(last.now).some) =>
        LET key == Key_generate(last.now).value IN
        IF key \in DOMAIN old_inner
        THEN status = "panicked" /\ ~last.ret.some
        ELSE /\ status = "running"
             /\ last.ret = Some(key)
             /\ DOMAIN inner = DOMAIN old_inner \cup {key}
             /\ inner[key].value = Value_serialize(last.value)
             /\ DOMAIN inner[key].connections = {}
             /\ \A k \in DOMAIN old_inner : inner[k] = old_inner[k]

\* C13 witness: a create has generated the key of a node that is in the table
\* and has a neighbour
C13_Witness ==
    /\ last.op = "create"
    /\ Key_generate(last.now).some
    /\ Key_generate(last.now).value \in DOMAIN old_inner
    /\ Neighbours(old_inner, Key_generate(last.now).value) # {}

\* C14: save never changes the node table. On a Memory backend save changes
\* nothing at all: no file is created or written. On a File backend a save
\* that completes leaves the file holding the current full table and nothing
\* else, whatever the file held before.
C14_SaveFrame ==
    last.op = "save" =>
        /\ inner = old_inner
        /\ storage = "Memory" => (file = old_file /\ status = "running")
        /\ (storage = "File" /\ status = "running") =>
              /\ file.exists
              /\ Len(file.bytes) = Cardinality(DOMAIN inner) + 1
              /\ Valid(file.bytes)
              /\ Decode(file.bytes) = inner

\* C14 witness: a save on a File backend has replaced a larger snapshot
C14_Witness ==
    /\ last.op = "save"
    /\ storage = "File"
    /\ status = "running"
    /\ Valid(old_file.bytes)
    /\ Len(old_file.bytes) > Len(file.bytes)

\* the nodes of `keys` have the same value in tables m1 and m2
SameValues(m1, m2, keys) ==
    /\ keys \subseteq DOMAIN m1
    /\ keys \subseteq DOMAIN m2
    /\ \A k \in keys : m1[k].value = m2[k].value

\* C15: node values are immutable and the key set changes only through create
\* and remove. Every call leaves the value of every node it does not remove as
\* it was (so get(K) yields the value K was created with until remove(K));
\* connect, disconnect, select, get, iter and save leave the key set as it was;
\* a create that returns adds its key with the value given; remove(K) takes
\* only K out and returns the value K had.
C15_ValuesImmutable ==
    /\ last.op \in {"connect", "disconnect", "select", "get", "iter", "save"} =>
          /\ DOMAIN inner = DOMAIN old_inner
          /\ SameValues(inner, old_inner, DOMAIN old_inner)
    /\ (last.op = "get" /\ last.key \in DOMAIN old_inner) =>
          (last.ret.some /\ last.ret.value.value = old_inner[last.key].value)
    /\ last.op = "iter" =>
          {<<p[1], p[2].value>> : p \in last.ret}
              = {<<k, old_inner[k].value>> : k \in DOMAIN old_inner}
    /\ Returned("create") =>
          /\ last.ret.some
          /\ DOMAIN inner = DOMAIN old_inner \cup {last.ret.value}
          /\ SameValues(inner, old_inner, DOMAIN old_inner)
          /\ inner[last.ret.value].value = Value_serialize(last.value)
    /\ Returned("remove") =>
          /\ DOMAIN inner = DOMAIN old_inner \ {last.key}
          /\ SameValues(inner, old_inner, DOMAIN inner)
          /\ last.key \in DOMAIN old_inner => last.ret = Some(old_inner[last.key].value)

\* C15 witness: a remove has returned the value of a node that had label sets,
\* while a node with another value stays
C15_Witness ==
    /\ Returned("remove")
    /\ last.ret.some
    /\ DOMAIN old_inner[last.key].connections # {}
    /\ \E k \in DOMAIN inner : inner[k].value # last.ret.value

\* C16: connect is idempotent. For existing keys A and B, a second
\* connect(A, l1, B, l2) with the same arguments returns true and leaves the
\* table exactly as it was after the first; the neighbour counts that
\* connections() reports do not grow.
C16_ConnectIdempotent ==
    (Returned("connect") /\ last.ret) =>
        LET again == connect(inner, last.first_key, last.first_kind,
                             last.second_key, last.second_kind)
        IN /\ again.ret = TRUE
           /\ ~again.panicked
           /\ again.inner = inner
           /\ \A n \in DOMAIN inner :
                 Node_connections(again.inner[n]) = Node_connections(inner[n])
           /\ (/\ last.second_key \in select(old_inner, last.first_key, last.first_kind)
               /\ last.first_key \in select(old_inner, last.second_key, last.second_kind))
                 => inner = old_inner

\* C16 witness: a connect has succeeded on a pair that the same connect had
\* already linked, the two sides under different labels
C16_Witness ==
    /\ Returned("connect")
    /\ last.ret
    /\ last.second_key \in select(old_inner, last.first_key, last.first_kind)
    /\ last.first_key \in select(old_inner, last.second_key, last.second_kind)
    /\ last.first_kind # last.second_kind

\* C17: load on a path where no file exists creates an empty file there and
\* returns an empty table backed by File(path); load on a path holding a
\* snapshot written by save returns that snapshot's table, backed by File(path),
\* and leaves the file as it is.
C17_Load ==
    last.op = "load" =>
        /\ ~old_file.exists =>
              /\ status = "running"
              /\ file = EmptyFile
              /\ inner = EmptyTable
              /\ storage = "File"
        /\ saved.some =>
              /\ status = "running"
              /\ file = old_file
              /\ inner = saved.value
              /\ storage = "File"

\* C17 witness: a load has found no file at the path and created one
C17_Witness ==
    /\ last.op = "load"
    /\ ~old_file.exists
    /\ file.exists

\* C18: remove never fails fatally. In every state a sequence of calls reaches
\* and for every key K, the cascade loop of remove(K) finds every neighbour
\* that destruct yields in the table, also one it visits a second time.
C18_RemoveNeverPanics ==
    /\ last.op = "remove" => status = "running"
    /\ status = "running" =>
          \A K \in KeyInputs(MaxClock) : ~remove(inner, K).panicked

\* C18 witness: a remove has returned for a node whose destruct yielded the
\* same neighbour twice
C18_Witness ==
    /\ Returned("remove")
    /\ last.key \in DOMAIN old_inner
    /\ LET yielded == Node_destruct(old_inner[last.key]).connections
       IN \E i, j \in 1 .. Len(yielded) : i # j /\ yielded[i] = yielded[j]

\* C19: adjacency is symmetric up to labels. In every state that create,
\* connect, disconnect and remove calls reach, for all nodes A and B, B is in
\* some label set of A exactly when A is in some label set of B.
C19_SymmetricAdjacency ==
    status = "running" =>
        \A A, B \in DOMAIN inner :
            (B \in Neighbours(inner, A)) <=> (A \in Neighbours(inner, B))

\* C19 witness: A holds B under one label only and B holds A under the other
\* label only, after a disconnect of another pair has returned
C19_Witness ==
    /\ Returned("disconnect")
    /\ last.ret
    /\ \E A, B \in DOMAIN inner :
          /\ A # B
          /\ B \in select(inner, A, "_")
          /\ B \notin select(inner, A, "!")
          /\ A \in select(inner, B, "!")
          /\ A \notin select(inner, B, "_")

\* C20: every file content the engine itself leaves at its path is loadable.
\* After load and save calls on one path that started absent, none of which
\* failed part way through a write, a further load returns without a fatal
\* error; a load right after the load that created the file included.
C20_LoadableFile ==
    (last.op = "load" /\ "torn" \notin DOMAIN saved) => status = "running"

====
